---- MODULE Spec2Model ----
(***************************************************************************)
(* Model of the risk-metric engine of riskpulse                            *)
(* (apps/risk_api/app/api/stock_utils.py): calculate_historical_var,       *)
(* calculate_daily_returns and beta_calculation.                           *)
(*                                                                         *)
(* Numbers are exact rationals <<numerator, denominator>> in lowest terms  *)
(* with a positive denominator; <<0, 0>> stands for NaN.  A standard       *)
(* deviation is kept as the square root of a rational (field "radical").   *)
(***************************************************************************)
EXTENDS Integers, Sequences, FiniteSets, TLC

(***************************************************************************)
(* Bounds of the model.                                                    *)
(***************************************************************************)
MaxPositions == 2
MaxDates == 3

(***************************************************************************)
(* Exact rational arithmetic.                                              *)
(***************************************************************************)
Abs(n) == IF n < 0 THEN -n ELSE n

RECURSIVE Gcd(_, _)
Gcd(a, b) == IF b = 0 THEN a ELSE Gcd(b, a % b)

Rat(n, d) ==
    LET g == Gcd(Abs(n), Abs(d))
        s == IF d < 0 THEN -1 ELSE 1
    IN  <<(s * n) \div g, (s * d) \div g>>

NaN == <<0, 0>>
Zero == <<0, 1>>
One == <<1, 1>>
IsNaN(x) == x[2] = 0

\* Sums and products cancel common factors before they multiply, so that
\* the intermediate integers stay small.
RAdd(x, y) ==
    IF IsNaN(x) \/ IsNaN(y) THEN NaN
    ELSE LET g == Gcd(x[2], y[2])
         IN  Rat(x[1] * (y[2] \div g) + y[1] * (x[2] \div g), (x[2] \div g) * y[2])
RNeg(x) == IF IsNaN(x) THEN NaN ELSE <<-x[1], x[2]>>
RSub(x, y) == RAdd(x, RNeg(y))
RMul(x, y) ==
    IF IsNaN(x) \/ IsNaN(y) THEN NaN
    ELSE LET g == Gcd(Abs(x[1]), y[2])
             h == Gcd(Abs(y[1]), x[2])
         IN  Rat((x[1] \div g) * (y[1] \div h), (x[2] \div h) * (y[2] \div g))
\* IEEE division of two finite doubles: 0/0 is NaN.  A nonzero numerator
\* over zero (an infinity) does not arise in the model: see Covariance.
RDiv(x, y) ==
    IF IsNaN(x) \/ IsNaN(y) \/ y[1] = 0 THEN NaN
    ELSE RMul(x, Rat(y[2], y[1]))
\* Comparisons with NaN are false, as for IEEE doubles.
RLess(x, y) == ~IsNaN(x) /\ ~IsNaN(y) /\ x[1] * y[2] < y[1] * x[2]
RLeq(x, y) == ~IsNaN(x) /\ ~IsNaN(y) /\ x[1] * y[2] <= y[1] * x[2]
RFloor(x) == x[1] \div x[2]

RECURSIVE RSum(_)
RSum(s) == IF s = <<>> THEN Zero ELSE RAdd(Head(s), RSum(Tail(s)))

(***************************************************************************)
(* Sequences.                                                              *)
(***************************************************************************)
Range(s) == {s[i] : i \in 1..Len(s)}
SeqsUpTo(S, n) == UNION {[1..k -> S] : k \in 0..n}
\* Every arrangement of the members of S in a sequence without repetition.
Orderings(S) ==
    {f \in [1..Cardinality(S) -> S] : \A i, j \in 1..Cardinality(S) : f[i] = f[j] => i = j}
\* Every reordering of the sequence s.
Reorderings(s) ==
    {[i \in 1..Len(s) |-> s[p[i]]] : p \in Orderings(1..Len(s))}
IndexOf(s, x) == CHOOSE i \in 1..Len(s) : s[i] = x
\* The sequence s itself, held as an explicit tuple.
Tuple(s) == s \o <<>>

(***************************************************************************)
(* Values of the engine.                                                   *)
(***************************************************************************)
MARKET_TICKER == "^GSPC"

\* str.upper() on the ticker spellings the model submits.
Upper(sym) ==
    CASE sym = "aapl" -> "AAPL"
      [] sym = "nvda" -> "NVDA"
      [] sym = "^gspc" -> "^GSPC"
      [] OTHER -> sym

\* What an invocation ends in: a float (kind "value": val, or its square
\* root when radical), a float NaN (kind "nan"), or a raised exception
\* (kind "error", err its type).  kind "none": nothing yet.
NoOutcome == [kind |-> "none", val |-> Zero, radical |-> FALSE, err |-> ""]
Value(x) == [kind |-> "value", val |-> x, radical |-> FALSE, err |-> ""]
Root(x) == [kind |-> "value", val |-> x, radical |-> TRUE, err |-> ""]
NaNOutcome == [kind |-> "nan", val |-> Zero, radical |-> FALSE, err |-> ""]
Raise(type) == [kind |-> "error", val |-> Zero, radical |-> FALSE, err |-> type]
\* float(x) of a numpy scalar: NaN stays NaN.
Float(x) == IF IsNaN(x) THEN NaNOutcome ELSE Value(x)
FloatRoot(x) == IF IsNaN(x) THEN NaNOutcome ELSE Root(x)

Symbols(portfolio) == Tuple([i \in 1..Len(portfolio) |-> Upper(portfolio[i].symbol)])
Allocations(portfolio) == Tuple([i \in 1..Len(portfolio) |-> portfolio[i].allocation])

(***************************************************************************)
(* The price table.  A frame is [labels, rows]: rows[t][k] is the cell of  *)
(* date t in the column labelled labels[k].  The provider's frame df is    *)
(* [columns, multi, close]: the tickers of its Close columns, whether its  *)
(* columns are a MultiIndex, and the Close prices.                         *)
(***************************************************************************)
\* df["Close"] if isinstance(df.columns, pd.MultiIndex) else df["Close"].to_frame()
CloseFrame(df) ==
    [labels |-> IF df.multi THEN df.columns ELSE <<"Close">>,
     rows |-> Tuple([t \in 1..Len(df.close) |->
                 Tuple([k \in 1..Len(df.columns) |->
                    \* a cell of 0 is a date on which the ticker has no price
                    IF df.close[t][k] = 0 THEN NaN ELSE Rat(df.close[t][k], 1)])])]

\* The last defined price of column k at or before date t (forward fill).
RECURSIVE Padded(_, _, _)
Padded(rows, t, k) ==
    IF t = 0 THEN NaN
    ELSE IF ~IsNaN(rows[t][k]) THEN rows[t][k]
    ELSE Padded(rows, t - 1, k)

\* DataFrame.pct_change(): price[t] / price[t-1] - 1, the first row undefined.
\* pad: whether the installed pandas forward-fills missing prices first.
PctChange(frame, pad) ==
    LET price(t, k) == IF pad THEN Padded(frame.rows, t, k) ELSE frame.rows[t][k]
    IN  [labels |-> frame.labels,
         rows |-> Tuple([t \in 1..Len(frame.rows) |->
                     Tuple([k \in 1..Len(frame.labels) |->
                        IF t = 1 THEN NaN
                        ELSE RSub(RDiv(price(t, k), price(t - 1, k)), One)])])]

\* DataFrame.dropna(): the rows without any missing cell, in order.
DropNa(frame) ==
    [labels |-> frame.labels,
     rows |-> SelectSeq(frame.rows, LAMBDA row : \A k \in 1..Len(row) : ~IsNaN(row[k]))]

\* frame[list of labels]: the named columns, in the order of the list.
Select(frame, names) ==
    [labels |-> names,
     rows |-> Tuple([t \in 1..Len(frame.rows) |->
                 Tuple([i \in 1..Len(names) |->
                    frame.rows[t][IndexOf(frame.labels, names[i])]])])]

\* frame[label]: one column as a series.
Column(frame, name) ==
    Tuple([t \in 1..Len(frame.rows) |-> frame.rows[t][IndexOf(frame.labels, name)]])

\* DataFrame.dot(ndarray): row t times the weights, position by position.
Dot(frame, weights) ==
    Tuple([t \in 1..Len(frame.rows) |->
        RSum(Tuple([k \in 1..Len(weights) |-> RMul(frame.rows[t][k], weights[k])]))])

(***************************************************************************)
(* Statistics (numpy, pandas).                                             *)
(***************************************************************************)
\* The sequence s with x inserted before its first member greater than x.
RECURSIVE Insert(_, _)
Insert(x, s) ==
    IF s = <<>> THEN <<x>>
    ELSE IF RLeq(x, Head(s)) THEN <<x>> \o s
    ELSE <<Head(s)>> \o Insert(x, Tail(s))

RECURSIVE Sorted(_)
Sorted(s) == IF s = <<>> THEN <<>> ELSE Insert(Head(s), Sorted(Tail(s)))

\* Percentile with method "lower": no interpolation (a mutant of Percentile).
PercentileLower(a, q) ==
    LET h == RMul(RDiv(q, Rat(100, 1)), Rat(Len(a) - 1, 1))
    IN  Sorted(a)[RFloor(h) + 1]

\* np.percentile(a, q), default method "linear", on a nonempty sample: the
\* virtual index q/100 * (n-1) into the sorted sample, interpolated linearly
\* between the two order statistics around it.
Percentile(a, q) ==
    LET n == Len(a)
        sorted == Sorted(a)
        h == RMul(RDiv(q, Rat(100, 1)), Rat(n - 1, 1))
        lo == RFloor(h)
        hi == IF lo + 1 > n - 1 THEN n - 1 ELSE lo + 1
        g == RSub(h, Rat(lo, 1))
    IN  RAdd(sorted[lo + 1], RMul(g, RSub(sorted[hi + 1], sorted[lo + 1])))

Mean(a) == RDiv(RSum(a), Rat(Len(a), 1))

\* Series.cov(other): sample covariance (divisor n-1); NaN below two rows.
Covariance(a, b) ==
    IF Len(a) < 2 THEN NaN
    ELSE LET ma == Mean(a)
             mb == Mean(b)
         IN  RDiv(RSum(Tuple([t \in 1..Len(a) |-> RMul(RSub(a[t], ma), RSub(b[t], mb))])),
                  Rat(Len(a) - 1, 1))

\* Series.var(): sample variance (ddof = 1); NaN below two rows.
Variance(a) == Covariance(a, a)

(***************************************************************************)
(* calculate_historical_var, after the download returned df.  lib names    *)
(* what the installed libraries do where their versions differ:            *)
(* lib.pad (pct_change forward-fills), lib.emptyPercentile (np.percentile  *)
(* of an empty sample: "nan" or "IndexError").                             *)
(* Each operator gives [port_returns, outcome].                            *)
(***************************************************************************)
Ended(port, outcome) == [port_returns |-> port, outcome |-> outcome]

\* The confidence level itself taken as the percentile (a mutant of VarPercentile).
VarPercentileOfConfidence(confidence_level) == RMul(confidence_level, Rat(100, 1))

\* var_percentile = (1 - confidence_level) * 100
VarPercentile(confidence_level) == RMul(RSub(One, confidence_level), Rat(100, 1))

\* The percentile returned without the negation (a mutant of HistoricalVar).
HistoricalVarNotNegated(port_returns, confidence_level, lib) ==
    LET q == VarPercentile(confidence_level)
    IN  IF RLess(q, Zero) \/ RLess(Rat(100, 1), q) THEN Raise("ValueError")
        ELSE IF port_returns = <<>>
             THEN (IF lib.emptyPercentile = "nan" THEN NaNOutcome ELSE Raise("IndexError"))
        ELSE Float(Percentile(port_returns, q))

\* historical_var = -np.percentile(port_returns, var_percentile)
HistoricalVar(port_returns, confidence_level, lib) ==
    LET q == VarPercentile(confidence_level)
    IN  IF RLess(q, Zero) \/ RLess(Rat(100, 1), q) THEN Raise("ValueError")
        ELSE IF port_returns = <<>>
             THEN (IF lib.emptyPercentile = "nan" THEN NaNOutcome ELSE Raise("IndexError"))
        ELSE Float(RNeg(Percentile(port_returns, q)))

\* returns = close.pct_change().dropna()
Returns(df, lib) == DropNa(PctChange(CloseFrame(df), lib.pad))

\* DataFrame.dot raises ValueError ("Dot product shape mismatch") unless the
\* frame has as many columns as there are weights.
ShapeMismatch(frame, weights) == Len(frame.labels) # Len(weights)

calculate_historical_var(portfolio, confidence_level, df, lib) ==
    LET allocations == Allocations(portfolio)
        returns == Returns(df, lib)
        port_returns == Dot(returns, allocations)
    IN  IF df.columns = <<>> THEN Ended(<<>>, Raise("KeyError"))
        ELSE IF ShapeMismatch(returns, allocations) THEN Ended(<<>>, Raise("ValueError"))
        ELSE Ended(port_returns, HistoricalVar(port_returns, confidence_level, lib))

\* float(port_returns.std()): sample standard deviation (ddof = 1).
calculate_daily_returns(portfolio, df, lib) ==
    LET allocations == Allocations(portfolio)
        returns == Returns(df, lib)
        port_returns == Dot(returns, allocations)
    IN  IF df.columns = <<>> THEN Ended(<<>>, Raise("KeyError"))
        ELSE IF ShapeMismatch(returns, allocations) THEN Ended(<<>>, Raise("ValueError"))
        ELSE Ended(port_returns, FloatRoot(Variance(port_returns)))

\* The download list without the benchmark, which would then need a fetch of
\* its own (a mutant of DownloadList).
DownloadListWithoutMarket(portfolio) == Symbols(portfolio)

\* download_list = symbols + [MARKET_TICKER]
DownloadList(portfolio) == Symbols(portfolio) \o <<MARKET_TICKER>>

\* Beta with the covariance divided by the variance of the portfolio's returns
\* instead of the market's (a mutant of beta_calculation).
BetaOverPortfolioVariance(portfolio, df, lib) ==
    LET symbols == Symbols(portfolio)
        all_returns == Returns(df, lib)
    IN  IF df.columns = <<>> THEN Ended(<<>>, Raise("KeyError"))
        ELSE IF ~(Range(symbols) \subseteq Range(all_returns.labels))
             THEN Ended(<<>>, Raise("KeyError"))
        ELSE IF MARKET_TICKER \notin Range(all_returns.labels)
             THEN Ended(<<>>, Raise("KeyError"))
        ELSE LET market_returns_series == Column(all_returns, MARKET_TICKER)
                 port == Dot(Select(all_returns, symbols), Allocations(portfolio))
                 covariance == Covariance(port, market_returns_series)
             IN  Ended(port, Float(RDiv(covariance, Variance(port))))

beta_calculation(portfolio, df, lib) ==
    LET symbols == Symbols(portfolio)
        all_returns == Returns(df, lib)
    IN  IF df.columns = <<>> THEN Ended(<<>>, Raise("KeyError"))
        ELSE IF ~(Range(symbols) \subseteq Range(all_returns.labels))
             THEN Ended(<<>>, Raise("KeyError"))
        ELSE IF MARKET_TICKER \notin Range(all_returns.labels)
             THEN Ended(<<>>, Raise("KeyError"))
        ELSE LET market_returns_series == Column(all_returns, MARKET_TICKER)
                 port == Dot(Select(all_returns, symbols), Allocations(portfolio))
                 covariance == Covariance(port, market_returns_series)
                 market_variance == Variance(market_returns_series)
             IN  Ended(port, Float(RDiv(covariance, market_variance)))

(***************************************************************************)
(* Inputs of the model.                                                    *)
(***************************************************************************)
InputSymbols == {"aapl", "NVDA"}
AllocationValues == {Rat(1, 4), Rat(1, 2)}
Positions == [symbol : InputSymbols, allocation : AllocationValues]
Portfolios == SeqsUpTo(Positions, MaxPositions)
\* 0.5, 0.95 (the default) and 1.5
ConfidenceLevels == {Rat(1, 2), Rat(95, 100), Rat(3, 2)}
DefaultConfidence == Rat(95, 100)
ClosePrices == {1, 2}
Libraries == [pad : BOOLEAN, emptyPercentile : {"nan", "IndexError"}]

\* What yf.download may return for a list of tickers: one Close column per
\* distinct ticker, in an order of the provider's choosing, for any number of
\* trading dates; a single ticker comes with or without a MultiIndex.
EmptyFrame == [columns |-> <<>>, multi |-> FALSE, close |-> <<>>]
ProviderFrames(tickers) ==
    IF tickers = <<>> THEN {EmptyFrame}
    ELSE UNION {
           [columns : {cols},
            multi : IF Len(cols) > 1 THEN {TRUE} ELSE BOOLEAN,
            close : UNION {[1..n -> [1..Len(cols) -> ClosePrices]] : n \in 0..MaxDates}]
           : cols \in Orderings(Range(tickers))}

(***************************************************************************)
(* State: one invocation of a risk operation.  pc is its position: "idle"  *)
(* (not called), "fetching" (awaiting run_in_threadpool(yf.download, ...)) *)
(* or "done".  fetchCalls counts the calls it made to the provider.        *)
(***************************************************************************)
VARIABLES pc, request, df, port_returns, outcome, fetchCalls

(***************************************************************************)
(* State: concurrent requests served by one event loop.  tasks[r] is the   *)
(* coroutine of request r; loop is the request whose code holds the event  *)
(* loop thread (0: the loop is free).                                      *)
(***************************************************************************)
VARIABLES tasks, loop

(***************************************************************************)
(* State: the document store and the handlers of the portfolio and user    *)
(* endpoints.  minted counts the ObjectIds generated so far; submitted     *)
(* remembers, for each portfolio id returned by a create and neither       *)
(* updated nor deleted since, the positions that the create was given.     *)
(***************************************************************************)
VARIABLES users, portfolios, handlers, minted, submitted

riskVars == <<pc, request, df, port_returns, outcome, fetchCalls>>
taskVars == <<tasks, loop>>
storeVars == <<users, portfolios, handlers, minted, submitted>>
vars == <<riskVars, taskVars, storeVars>>

NoRequest == [op |-> "none", portfolio |-> <<>>, confidence_level |-> Zero]

Requests == {1, 2}
NoTask == [pc |-> "idle", request |-> NoRequest, requested |-> <<>>, df |-> EmptyFrame,
           port_returns |-> <<>>, outcome |-> NoOutcome, fetchCalls |-> 0, behind |-> {}]

\* Strings that name documents.  Str(oid) is the hex string of an ObjectId;
\* a string that is no ObjectId's hex string is malformed.  NoneId is None
\* and Unset a field the request body does not carry.
Str(oid) == <<"hex", oid>>
MalformedId == <<"text", 0>>
NoneId == <<"none", 0>>
Unset == <<"unset", 0>>
\* An ObjectId that takes any string (a mutant of ObjectId).
ObjectIdLenient(s) == IF s[1] = "hex" THEN s[2] ELSE 1

\* ObjectId(s): the ObjectId of a hex string; 0 stands for raising InvalidId.
ObjectId(s) == IF s[1] = "hex" THEN s[2] ELSE 0

Clients == {1, 2}
NoBody == [id |-> Unset, positions |-> <<>>]
NoEmail == ""
NoResponse == [status |-> 0, detail |-> "", id |-> NoneId, positions |-> <<>>, flag |-> FALSE,
               value |-> NoOutcome, email |-> NoEmail]
\* queries and fetches count the operations the handler has issued to the
\* store and the calls it has made to the market data provider.
IdleHandler == [op |-> "none", pc |-> "idle", arg |-> NoneId, email |-> "", body |-> NoBody,
                oid |-> 0, response |-> NoResponse, queries |-> 0, fetches |-> 0]

StoreInit ==
    /\ users = {}
    /\ portfolios = {}
    /\ handlers = [c \in Clients |-> IdleHandler]
    /\ minted = 0
    /\ submitted = {}

TaskInit ==
    /\ tasks = [r \in Requests |-> NoTask]
    /\ loop = 0

Init ==
    /\ pc = "idle"
    /\ request = NoRequest
    /\ df = EmptyFrame
    /\ port_returns = <<>>
    /\ outcome = NoOutcome
    /\ fetchCalls = 0
    /\ TaskInit
    /\ StoreInit

\* A call: the code goes straight to the download (no check of its inputs).
Call(op, portfolio, confidence_level) ==
    /\ pc = "idle"
    /\ pc' = "fetching"
    /\ request' = [op |-> op, portfolio |-> portfolio, confidence_level |-> confidence_level]
    /\ fetchCalls' = fetchCalls + 1
    /\ UNCHANGED <<df, port_returns, outcome, taskVars, storeVars>>

CallVar(portfolio, confidence_level) == Call("var", portfolio, confidence_level)
CallVolatility(portfolio) == Call("volatility", portfolio, DefaultConfidence)
CallBeta(portfolio) == Call("beta", portfolio, DefaultConfidence)

Finish(frame, ended) ==
    /\ pc' = "done"
    /\ df' = frame
    /\ port_returns' = ended.port_returns
    /\ outcome' = ended.outcome
    /\ UNCHANGED <<request, fetchCalls, taskVars, storeVars>>

Requested == IF request.op = "beta" THEN DownloadList(request.portfolio)
             ELSE Symbols(request.portfolio)

\* The download returned a frame: the rest of calculate_historical_var.
VarResume ==
    /\ pc = "fetching" /\ request.op = "var"
    /\ \E frame \in ProviderFrames(Requested), lib \in Libraries :
         Finish(frame, calculate_historical_var(request.portfolio,
                                                request.confidence_level, frame, lib))

\* The download returned a frame: the rest of calculate_daily_returns.
VolatilityResume ==
    /\ pc = "fetching" /\ request.op = "volatility"
    /\ \E frame \in ProviderFrames(Requested), lib \in Libraries :
         Finish(frame, calculate_daily_returns(request.portfolio, frame, lib))

\* The download returned a frame: the rest of beta_calculation.
BetaResume ==
    /\ pc = "fetching" /\ request.op = "beta"
    /\ \E frame \in ProviderFrames(Requested), lib \in Libraries :
         Finish(frame, beta_calculation(request.portfolio, frame, lib))

\* The download raised: the exception leaves the operation as it is.
FetchRaise ==
    /\ pc = "fetching"
    /\ Finish(EmptyFrame, Ended(<<>>, Raise("ProviderError")))

\* The caller has the outcome; nothing of the invocation is kept.
Return ==
    /\ pc = "done"
    /\ pc' = "idle"
    /\ request' = NoRequest
    /\ df' = EmptyFrame
    /\ port_returns' = <<>>
    /\ outcome' = NoOutcome
    /\ fetchCalls' = 0
    /\ UNCHANGED <<taskVars, storeVars>>

NextVar ==
    \/ \E p \in Portfolios, c \in ConfidenceLevels : CallVar(p, c)
    \/ VarResume
    \/ FetchRaise
    \/ Return

Next ==
    \/ \E p \in Portfolios, c \in ConfidenceLevels : CallVar(p, c)
    \/ \E p \in Portfolios : CallVolatility(p)
    \/ \E p \in Portfolios : CallBeta(p)
    \/ VarResume
    \/ VolatilityResume
    \/ BetaResume
    \/ FetchRaise
    \/ Return

Spec == Init /\ [][Next]_vars
SpecVar == Init /\ [][NextVar]_vars

(***************************************************************************)
(* What the properties below speak of.                                     *)
(***************************************************************************)
Done == pc = "done"
\* The download delivered a frame and the operation ran on it.
Delivered == Done /\ outcome.err # "ProviderError"
Returned == Done /\ outcome.kind = "value"

\* The operation op as a function of its inputs.
Run(op, portfolio, confidence_level, frame, lib) ==
    CASE op = "var" -> calculate_historical_var(portfolio, confidence_level, frame, lib)
      [] op = "volatility" -> calculate_daily_returns(portfolio, frame, lib)
      [] op = "beta" -> beta_calculation(portfolio, frame, lib)

\* The return table of the provider's frame keyed by ticker: the returns of
\* the dates that survive the alignment.
ReturnsByTicker(frame) ==
    DropNa(PctChange([labels |-> frame.columns, rows |-> CloseFrame(frame).rows], FALSE))

\* sum over the positions i of allocation_i times the return of position i's
\* own symbol, for every surviving date.
WeightedBySymbol(portfolio, frame) ==
    LET r == ReturnsByTicker(frame)
    IN  Tuple([t \in 1..Len(r.rows) |->
           RSum(Tuple([i \in 1..Len(portfolio) |->
              RMul(portfolio[i].allocation,
                   r.rows[t][IndexOf(r.labels, Upper(portfolio[i].symbol))])]))])

\* C1: whenever an operation came to a result, its portfolio return series is,
\* date by date, the sum of allocation_i times the return of position i's own
\* symbol, whatever the order of the provider's columns.
C1_WeightsMatchSymbols ==
    (Done /\ outcome.kind \in {"value", "nan"})
        => port_returns = WeightedBySymbol(request.portfolio, df)

\* C2: a result is the same for every reordering of the portfolio's positions
\* on the same provider frame.
C2_OrderInvariance ==
    Returned =>
        \A p \in Reorderings(request.portfolio), lib \in Libraries :
            Run(request.op, p, request.confidence_level, df, lib).outcome = outcome

\* C3: a symbol held twice at the same allocation a gives the portfolio return
\* series and the result of that symbol held once at 2a, and does not fail.
C3_DuplicateIsTwoTerms ==
    (Delivered /\ Len(request.portfolio) = 2
       /\ request.portfolio[1] = request.portfolio[2])
        => \E lib \in Libraries :
             LET once == <<[symbol |-> request.portfolio[1].symbol,
                            allocation |-> RAdd(request.portfolio[1].allocation,
                                                request.portfolio[2].allocation)]>>
                 single == Run(request.op, once, request.confidence_level, df, lib)
             IN  /\ single.port_returns = port_returns
                 /\ single.outcome = outcome

\* C4: with fewer than two return rows after alignment every operation ends
\* in DataUnavailableError.
C4_TooFewDatesIsDataUnavailable ==
    (Delivered /\ df.columns # <<>> /\ Len(ReturnsByTicker(df).rows) < 2)
        => outcome = Raise("DataUnavailableError")

\* C5: an empty portfolio or a confidence level outside (0,1) ends in
\* InputError and no call to the provider is issued.
InvalidInput ==
    /\ request.op # "none"
    /\ \/ request.portfolio = <<>>
       \/ /\ request.op = "var"
          /\ ~(RLess(Zero, request.confidence_level) /\ RLess(request.confidence_level, One))
C5_InvalidInputRejectedBeforeFetch ==
    InvalidInput => /\ fetchCalls = 0
                    /\ Done => outcome = Raise("InputError")

\* C6: beta of a (nonempty) portfolio over a benchmark whose returns have zero
\* variance on the aligned dates ends in ComputationError, not in a division
\* by zero or a NaN.
BenchmarkReturns == Column(ReturnsByTicker(df), MARKET_TICKER)
C6_ZeroBenchmarkVarianceIsComputationError ==
    (Delivered /\ request.op = "beta" /\ request.portfolio # <<>>
       /\ MARKET_TICKER \in Range(df.columns)
       /\ Len(BenchmarkReturns) >= 2 /\ Variance(BenchmarkReturns) = Zero)
        => outcome = Raise("ComputationError")

(***************************************************************************)
(* The percentile by ranks, without sorting: the k-th order statistic of a *)
(* sample is its member v with fewer than k members below v and at least k *)
(* members at or below v.                                                  *)
(***************************************************************************)
OrderStatistic(a, k) ==
    CHOOSE v \in Range(a) :
        /\ Cardinality({i \in 1..Len(a) : RLess(a[i], v)}) < k
        /\ Cardinality({i \in 1..Len(a) : RLeq(a[i], v)}) >= k

\* The q-th percentile, interpolated linearly between the order statistics
\* on either side of position 1 + q/100 * (n-1).
RankPercentile(a, q) ==
    LET n == Len(a)
        pos == RDiv(RMul(q, Rat(n - 1, 1)), Rat(100, 1))
        k == RFloor(pos) + 1
        below == OrderStatistic(a, k)
        above == OrderStatistic(a, IF k < n THEN k + 1 ELSE n)
    IN  RAdd(RMul(RSub(Rat(k, 1), pos), below),
             RMul(RSub(pos, Rat(k - 1, 1)), above))

AnyLibrary == CHOOSE lib \in Libraries : TRUE

\* The sample of the worked example and its VaR at 95%: 0.044.
ExampleReturns == <<Rat(-5, 100), Rat(-2, 100), Rat(1, 100), Rat(3, 100), Rat(7, 100)>>
ExampleOrders ==
    {ExampleReturns,
     <<Rat(7, 100), Rat(3, 100), Rat(1, 100), Rat(-2, 100), Rat(-5, 100)>>,
     <<Rat(1, 100), Rat(-5, 100), Rat(7, 100), Rat(-2, 100), Rat(3, 100)>>}
ExampleVarHolds ==
    \A s \in ExampleOrders :
        /\ HistoricalVar(s, Rat(95, 100), AnyLibrary) = Value(Rat(44, 1000))
        /\ HistoricalVar(s, Rat(95, 100), AnyLibrary)
             = Value(RNeg(RankPercentile(ExampleReturns, Rat(5, 1))))

AllReturns(P(_)) == port_returns # <<>> /\ \A t \in 1..Len(port_returns) : P(port_returns[t])
Negative(x) == RLess(x, Zero)
Positive(x) == RLess(Zero, x)

ProbeLevels ==
    <<Rat(1, 100), Rat(1, 4), Rat(1, 2), Rat(3, 4), Rat(95, 100), Rat(99, 100)>>
VarAt(c, lib) == calculate_historical_var(request.portfolio, c, df, lib).outcome

\* C9: on the same portfolio and frame, for confidence levels c1 <= c2 in
\* (0,1), the VaR at c2 is at least the VaR at c1.
C9_VarMonotoneInConfidence ==
    (Returned /\ request.op = "var") =>
        LET at == Tuple([i \in 1..Len(ProbeLevels) |-> VarAt(ProbeLevels[i], AnyLibrary)])
        IN  /\ \E i \in 1..Len(ProbeLevels) :
                 ProbeLevels[i] = request.confidence_level /\ at[i] = outcome
            /\ \A i, j \in 1..Len(ProbeLevels) :
                 i <= j => /\ at[i].kind = "value"
                           /\ at[j].kind = "value"
                           /\ RLeq(at[i].val, at[j].val)

\* C9 witness: the VaR returned at 0.95 is strictly above the VaR at 0.5.
C9_Witness ==
    /\ Returned /\ request.op = "var"
    /\ request.confidence_level = Rat(95, 100)
    /\ RLess(VarAt(Rat(1, 2), AnyLibrary).val, outcome.val)

\* C10: with weights that sum to 1 and every close price constant over at
\* least three dates, calculate_historical_var (at a confidence level in
\* (0,1)) and calculate_daily_returns return 0.
WeightsSumToOne == RSum(Allocations(request.portfolio)) = One
ConstantPrices ==
    /\ Len(df.close) >= 3
    /\ \A t \in 1..Len(df.close) : df.close[t] = df.close[1]
C10_ConstantPricesGiveZero ==
    (Delivered /\ request.op \in {"var", "volatility"} /\ ~InvalidInput
       /\ WeightsSumToOne /\ ConstantPrices)
        => outcome.kind = "value" /\ outcome.val = Zero

(***************************************************************************)
(* Beta of the benchmark against itself: beta_calculation on a portfolio   *)
(* whose one position is the benchmark ticker.                             *)
(***************************************************************************)
BenchmarkSpellings == {"^GSPC", "^gspc"}
BenchmarkAllocations == AllocationValues \cup {One}
BenchmarkPortfolios ==
    {<<[symbol |-> s, allocation |-> a]>> : s \in BenchmarkSpellings, a \in BenchmarkAllocations}

NextBenchmark ==
    \/ \E p \in BenchmarkPortfolios : CallBeta(p)
    \/ BetaResume
    \/ FetchRaise
    \/ Return

SpecBenchmark == Init /\ [][NextBenchmark]_vars

\* The portfolio is the benchmark alone and its price history is not
\* degenerate: at least two return rows, of nonzero variance.
BenchmarkAlone ==
    /\ Delivered /\ request.op = "beta"
    /\ Symbols(request.portfolio) = <<MARKET_TICKER>>
    /\ Len(BenchmarkReturns) >= 2
    /\ Variance(BenchmarkReturns) # Zero

GapPrices == ClosePrices \cup {0}
GapFrames(tickers) ==
    IF tickers = <<>> THEN {EmptyFrame}
    ELSE UNION {
           [columns : {cols},
            multi : IF Len(cols) > 1 THEN {TRUE} ELSE BOOLEAN,
            close : UNION {[1..n -> [1..Len(cols) -> GapPrices]] : n \in 0..MaxDates}]
           : cols \in Orderings(Range(tickers))}

GapPortfolios == {<<p>> : p \in Positions}

\* The download returned a frame with gaps: the rest of calculate_historical_var.
VarResumeWithGaps ==
    /\ pc = "fetching" /\ request.op = "var"
    /\ \E frame \in GapFrames(Requested), lib \in Libraries :
         Finish(frame, calculate_historical_var(request.portfolio,
                                                request.confidence_level, frame, lib))

\* The download returned a frame with gaps: the rest of beta_calculation.
BetaResumeWithGaps ==
    /\ pc = "fetching" /\ request.op = "beta"
    /\ \E frame \in GapFrames(Requested), lib \in Libraries :
         Finish(frame, beta_calculation(request.portfolio, frame, lib))

NextGaps ==
    \/ \E p \in GapPortfolios : CallVar(p, DefaultConfidence)
    \/ \E p \in GapPortfolios : CallBeta(p)
    \/ VarResumeWithGaps
    \/ BetaResumeWithGaps
    \/ FetchRaise
    \/ Return

SpecGaps == Init /\ [][NextGaps]_vars

\* The dates of the fetched table on which, and on the row before which,
\* every fetched ticker has a price.
CleanDates ==
    {t \in 2..Len(df.close) :
        \A k \in 1..Len(df.columns) : df.close[t][k] # 0 /\ df.close[t - 1][k] # 0}

\* The weighted return of the portfolio on date t, from the prices themselves.
CleanReturn(t) ==
    LET term(i) ==
          LET k == IndexOf(df.columns, Upper(request.portfolio[i].symbol))
          IN  RMul(request.portfolio[i].allocation,
                   RSub(Rat(df.close[t][k], df.close[t - 1][k]), One))
    IN  RSum([i \in 1..Len(request.portfolio) |-> term(i)])

RECURSIVE CleanSeries(_)
CleanSeries(t) ==
    IF t > Len(df.close) THEN <<>>
    ELSE (IF t \in CleanDates THEN <<CleanReturn(t)>> ELSE <<>>) \o CleanSeries(t + 1)

\* C12: the dates contributing to a computed statistic are exactly those on
\* which, and on the row before which, every fetched ticker has a price; the
\* portfolio return series holds the returns of those dates and no return
\* derived from a missing or filled-in price.
C12_OnlyCleanDatesContribute ==
    (Delivered /\ outcome.kind \in {"value", "nan"}) =>
        port_returns = CleanSeries(2)

(***************************************************************************)
(* Volatility: calculate_daily_returns alone.                              *)
(***************************************************************************)
NextVolatility ==
    \/ \E p \in Portfolios : CallVolatility(p)
    \/ VolatilityResume
    \/ FetchRaise
    \/ Return

SpecVolatility == Init /\ [][NextVolatility]_vars

\* The sample variance of a series by the sum of squares:
\* (sum x^2 - (sum x)^2 / n) / (n - 1).
SumOfSquaresVariance(a) ==
    LET n == Rat(Len(a), 1)
        squares == RSum(Tuple([t \in 1..Len(a) |-> RMul(a[t], a[t])]))
        total == RSum(a)
    IN  RDiv(RSub(squares, RDiv(RMul(total, total), n)), RSub(n, One))

\* C16: the number calculate_daily_returns returns is the sample standard
\* deviation (divisor n - 1, not annualized) of the weighted-sum portfolio
\* return series, each symbol's returns weighted by that symbol's allocation.
C16_VolatilityIsSampleDeviation ==
    (Returned /\ request.op = "volatility") =>
        outcome = Root(SumOfSquaresVariance(WeightedBySymbol(request.portfolio, df)))

(***************************************************************************)
(* Concurrent requests.  A coroutine runs on the event loop up to its      *)
(* await of run_in_threadpool(yf.download, ...), the download runs on a    *)
(* worker thread, and the coroutine resumes on the event loop with the     *)
(* frame (or the exception) of its own download.                           *)
(***************************************************************************)
TaskPortfolios == {<<[symbol |-> "aapl", allocation |-> Rat(1, 2)]>>}
\* The frames the downloads of these requests return: MaxDates dates, each
\* ticker's price alternating between 1 and 2 from either start.
TaskFrames(tickers) ==
    IF tickers = <<>> THEN {EmptyFrame}
    ELSE UNION {
           {[columns |-> cols,
             multi |-> m,
             close |-> Tuple([t \in 1..MaxDates |->
                         Tuple([k \in 1..Len(cols) |->
                            IF t % 2 = 1 THEN first[k] ELSE 3 - first[k]])])]
              : first \in [1..Len(cols) -> ClosePrices],
                m \in IF Len(cols) > 1 THEN {TRUE} ELSE BOOLEAN}
           : cols \in Orderings(Range(tickers))}

\* The holder of the event loop while request r's download is in the worker
\* thread, had the coroutine called yf.download itself (a mutant of
\* LoopWhileFetching).
LoopHeldWhileFetching(r) == r

\* The holder of the event loop while request r's download is in the worker
\* thread: the await hands the loop back.
LoopWhileFetching(r) == 0

\* The frame of the lowest-numbered request that has one, as if df were a
\* variable of the module (a mutant of AwaitedFrame).
SharedFrame(r) ==
    LET holders == {o \in Requests : tasks[o].pc \in {"fetched", "done"}}
    IN  tasks[CHOOSE o \in holders : \A q \in holders : o <= q].df

\* df, the local variable the await assigns in the coroutine of request r.
AwaitedFrame(r) == tasks[r].df

\* Request r arrives: its coroutine runs to the await of the download.
TaskCall(r, op, portfolio, confidence_level) ==
    /\ tasks[r].pc = "idle"
    /\ loop = 0
    /\ tasks' = [tasks EXCEPT ![r] =
          [NoTask EXCEPT
             !.pc = "fetching",
             !.request = [op |-> op, portfolio |-> portfolio,
                          confidence_level |-> confidence_level],
             !.requested = IF op = "beta" THEN DownloadList(portfolio)
                           ELSE Symbols(portfolio),
             !.fetchCalls = 1,
             !.behind = {o \in Requests : tasks[o].pc = "fetching"}]]
    /\ loop' = LoopWhileFetching(r)
    /\ UNCHANGED <<riskVars, storeVars>>

TaskArrives(r) ==
    \E op \in {"var", "volatility", "beta"}, p \in TaskPortfolios :
        TaskCall(r, op, p, DefaultConfidence)

\* The worker thread of request r returns the frame of its download.
WorkerReturns(r) ==
    /\ tasks[r].pc = "fetching"
    /\ \E frame \in TaskFrames(tasks[r].requested) :
          tasks' = [tasks EXCEPT ![r].pc = "fetched", ![r].df = frame]
    /\ UNCHANGED <<loop, riskVars, storeVars>>

\* The download of request r raises in its worker thread.
WorkerRaises(r) ==
    /\ tasks[r].pc = "fetching"
    /\ tasks' = [tasks EXCEPT ![r].pc = "failed"]
    /\ UNCHANGED <<loop, riskVars, storeVars>>

\* The coroutine of request r resumes with its frame and runs to its return.
TaskResume(r) ==
    /\ tasks[r].pc = "fetched"
    /\ loop \in {0, r}
    /\ \E lib \in Libraries :
          LET ended == Run(tasks[r].request.op, tasks[r].request.portfolio,
                           tasks[r].request.confidence_level, AwaitedFrame(r), lib)
          IN  tasks' = [tasks EXCEPT ![r].pc = "done",
                                     ![r].port_returns = ended.port_returns,
                                     ![r].outcome = ended.outcome]
    /\ loop' = 0
    /\ UNCHANGED <<riskVars, storeVars>>

\* The coroutine of request r resumes with the exception of its download,
\* which no handler catches.
TaskReraise(r) ==
    /\ tasks[r].pc = "failed"
    /\ loop \in {0, r}
    /\ tasks' = [tasks EXCEPT ![r].pc = "done", ![r].outcome = Raise("ProviderError")]
    /\ loop' = 0
    /\ UNCHANGED <<riskVars, storeVars>>

NextTasks ==
    \E r \in Requests :
        \/ TaskArrives(r)
        \/ WorkerReturns(r)
        \/ WorkerRaises(r)
        \/ TaskResume(r)
        \/ TaskReraise(r)

SpecTasks == Init /\ [][NextTasks]_vars

\* Request r has its result from a frame of its own download.
TaskDelivered(r) == tasks[r].pc = "done" /\ tasks[r].outcome.err # "ProviderError"

\* C13: while the download of one request is pending in its worker thread
\* no request's code holds the event loop, so that every other request can
\* arrive, resume and complete; and no request has a statistic before its own
\* download has returned.
C13_LoopFreeWhileFetching ==
    /\ (\E r \in Requests : tasks[r].pc = "fetching") => loop = 0
    /\ \A r \in Requests :
          /\ tasks[r].pc \in {"idle", "fetching", "fetched", "failed"} =>
                tasks[r].outcome = NoOutcome /\ tasks[r].port_returns = <<>>
          /\ TaskDelivered(r) => tasks[r].df \in TaskFrames(tasks[r].requested)

\* C13 witness: request 2 arrived while the download of request 1 was
\* pending, and has completed with a number while that download still is.
C13_Witness ==
    /\ tasks[1].pc = "fetching"
    /\ tasks[2].pc = "done" /\ tasks[2].outcome.kind = "value"
    /\ 1 \in tasks[2].behind

\* The result of request r is the result of its operation run alone on its
\* own portfolio, parameters and provider data.
AsAlone(r) ==
    \E lib \in Libraries :
        Ended(tasks[r].port_returns, tasks[r].outcome)
          = Run(tasks[r].request.op, tasks[r].request.portfolio,
                tasks[r].request.confidence_level, tasks[r].df, lib)

\* A step changes the state of one request at most.
OneTaskPerStep ==
    \A r, o \in Requests : (r # o /\ tasks'[r] # tasks[r]) => tasks'[o] = tasks[o]

OneCallTickers(req) ==
    IF req.op = "beta"
    THEN Tuple([i \in 1..Len(req.portfolio) + 1 |->
            IF i <= Len(req.portfolio) THEN Upper(req.portfolio[i].symbol)
            ELSE MARKET_TICKER])
    ELSE Tuple([i \in 1..Len(req.portfolio) |-> Upper(req.portfolio[i].symbol)])

\* After a failed download the invocation ends with the provider's error.
FailurePropagates ==
    \A r \in Requests :
        (tasks[r].pc = "failed" /\ tasks'[r] # tasks[r]) =>
            /\ tasks'[r].pc = "done"
            /\ tasks'[r].outcome = Raise("ProviderError")
            /\ tasks'[r].fetchCalls = 1

\* C15: an invocation makes exactly one call to the provider, which for beta
\* carries the portfolio's symbols and the benchmark; if the call fails the
\* invocation ends with the failure, without a second call and without a
\* number.
C15_OneProviderCall ==
    /\ [](\A r \in Requests :
            tasks[r].pc # "idle" =>
               /\ tasks[r].fetchCalls = 1
               /\ tasks[r].requested = OneCallTickers(tasks[r].request))
    /\ [][FailurePropagates]_vars

\* C15 witness: one invocation ended with the provider's error after its
\* one call, and a beta invocation got its number from its one call.
C15_Witness ==
    /\ tasks[1].pc = "done" /\ tasks[1].outcome = Raise("ProviderError")
    /\ tasks[1].fetchCalls = 1
    /\ tasks[2].pc = "done" /\ tasks[2].request.op = "beta"
    /\ tasks[2].outcome.kind = "value" /\ tasks[2].fetchCalls = 1

(***************************************************************************)
(* The document store and the handlers of portfolio.py and users.py.  A    *)
(* handler runs from one await of the database to the next; each database  *)
(* operation is one step.  A user document is [_id, email_address], a      *)
(* portfolio document [_id, user_id, id, positions].                       *)
(***************************************************************************)
MaxDocs == 3

Emails == {"a@x.com"}
StorePositions ==
    { << [symbol |-> "AAPL", allocation |-> Rat(1, 2)], [symbol |-> "nvda", allocation |-> Rat(1, 4)] >>,
      << [symbol |-> "nvda", allocation |-> Rat(1, 4)], [symbol |-> "AAPL", allocation |-> Rat(1, 2)] >> }
Bodies == [id : {Unset, MalformedId}, positions : StorePositions]
IdStrings == {Str(n) : n \in 1..MaxDocs} \cup {MalformedId}

\* collection.find_one({"_id": oid}): the documents of that _id (none or one).
Find(coll, oid) == {d \in coll : d._id = oid}
TheDoc(coll, oid) == CHOOSE d \in coll : d._id = oid

\* An existence check that every user id passes (a mutant of UserExists).
UserExistsAlways(oid) == TRUE

\* users_col.count_documents({"_id": ObjectId(user_id)}, limit=1)
UserExists(oid) == Find(users, oid) # {}

\* body.portfolio.model_dump(): every field, None for an id not given.
ModelDump(body) ==
    [id |-> IF body.id = Unset THEN NoneId ELSE body.id, positions |-> body.positions]

\* The response with the id as the document stores it, without the
\* conversion of _id (a mutant of PortfolioResponse).
PortfolioResponseStoredId(doc) ==
    [NoResponse EXCEPT !.status = 200, !.id = doc.id, !.positions = doc.positions]

\* doc["id"] = str(doc.pop("_id")); Portfolio.model_validate(doc)
PortfolioResponse(doc) ==
    [NoResponse EXCEPT !.status = 200, !.id = Str(doc._id), !.positions = doc.positions]

\* $set of update_data with upsert (a mutant of FindOneAndUpdate).
FindOneAndUpdateUpsert(coll, oid, body) ==
    IF Find(coll, oid) = {}
    THEN coll \cup {[_id |-> oid, user_id |-> 0, id |-> ModelDump(body).id,
                     positions |-> body.positions]}
    ELSE {IF d._id = oid
          THEN [d EXCEPT !.positions = body.positions,
                         !.id = IF body.id = Unset THEN @ ELSE body.id]
          ELSE d : d \in coll}

\* find_one_and_update({"_id": oid}, {"$set": body.model_dump(exclude_unset=True)}):
\* the fields the body carries are set on the document of that _id, if any.
FindOneAndUpdate(coll, oid, body) ==
    {IF d._id = oid
     THEN [d EXCEPT !.positions = body.positions,
                    !.id = IF body.id = Unset THEN @ ELSE body.id]
     ELSE d : d \in coll}

\* A delete that empties the collection (a mutant of DeleteOne).
DeleteEvery(coll, oid) == {}

\* collection.delete_one({"_id": oid})
DeleteOne(coll, oid) == {d \in coll : d._id # oid}

HttpError(status, detail) == [NoResponse EXCEPT !.status = status, !.detail = detail]

\* Handler c, back from a database operation, goes on to its next one.
Goto(c, label) ==
    handlers' = [handlers EXCEPT ![c].pc = label, ![c].queries = @ + 1]
\* Handler c, back from a database operation, answers.
Respond(c, response) ==
    handlers' = [handlers EXCEPT ![c].pc = "done", ![c].response = response,
                                 ![c].queries = @ + 1]
At(c, op, label) == handlers[c].op = op /\ handlers[c].pc = label

\* A request arrives: the handler runs to its first database operation.  A
\* malformed id is answered with onInvalid (500 where InvalidId is not caught).
Start(c, op, arg, email, body, onInvalid) ==
    /\ handlers[c].pc = "idle"
    /\ handlers' = [handlers EXCEPT ![c] =
          IF arg # NoneId /\ ObjectId(arg) = 0
          THEN [IdleHandler EXCEPT !.op = op, !.pc = "done", !.arg = arg, !.email = email,
                                   !.body = body, !.response = onInvalid]
          ELSE [IdleHandler EXCEPT !.op = op, !.pc = "first", !.arg = arg, !.email = email,
                                   !.body = body, !.oid = ObjectId(arg)]]
    /\ UNCHANGED <<users, portfolios, minted, submitted, riskVars, taskVars>>

InternalServerError == HttpError(500, "Internal Server Error")
InvalidPortfolioId == HttpError(422, "Invalid portfolio ID format")

\* users.py create_user
StartCreateUser(c) ==
    /\ minted < MaxDocs
    /\ \E email \in Emails : Start(c, "create_user", NoneId, email, NoBody, NoResponse)

CreateUserCount(c) ==
    /\ At(c, "create_user", "first")
    /\ IF \E u \in users : u.email_address = handlers[c].email
       THEN Respond(c, HttpError(409, "email already exits"))
       ELSE Goto(c, "insert")
    /\ UNCHANGED <<users, portfolios, minted, submitted, riskVars, taskVars>>

CreateUserInsert(c) ==
    /\ At(c, "create_user", "insert")
    /\ minted < MaxDocs
    /\ minted' = minted + 1
    /\ users' = users \cup {[_id |-> minted + 1, email_address |-> handlers[c].email]}
    /\ handlers' = [handlers EXCEPT ![c].pc = "find", ![c].oid = minted + 1,
                                    ![c].queries = @ + 1]
    /\ UNCHANGED <<portfolios, submitted, riskVars, taskVars>>

CreateUserFind(c) ==
    /\ At(c, "create_user", "find")
    /\ IF Find(users, handlers[c].oid) = {}
       THEN Respond(c, HttpError(500, "insert failed"))
       ELSE Respond(c, [NoResponse EXCEPT !.status = 201, !.id = Str(handlers[c].oid)])
    /\ UNCHANGED <<users, portfolios, minted, submitted, riskVars, taskVars>>

\* users.py delete_user
StartDeleteUser(c) ==
    \E s \in IdStrings : Start(c, "delete_user", s, "", NoBody, InternalServerError)

DeleteUserCount(c) ==
    /\ At(c, "delete_user", "first")
    /\ IF ~UserExists(handlers[c].oid)
       THEN Respond(c, HttpError(404, "User not found"))
       ELSE Goto(c, "delete")
    /\ UNCHANGED <<users, portfolios, minted, submitted, riskVars, taskVars>>

DeleteUserApply(c) ==
    /\ At(c, "delete_user", "delete")
    /\ users' = DeleteOne(users, handlers[c].oid)
    /\ Respond(c, [NoResponse EXCEPT !.status = 200,
                      !.flag = (Cardinality(users) - Cardinality(users') = 1)])
    /\ UNCHANGED <<portfolios, minted, submitted, riskVars, taskVars>>

\* The User the handler returns: the document with its _id as the id string.
UserResponse(doc) ==
    [NoResponse EXCEPT !.status = 200, !.id = Str(doc._id), !.email = doc.email_address]

\* users.py get_user
StartGetUser(c) ==
    \E s \in IdStrings : Start(c, "get_user", s, NoEmail, NoBody, InternalServerError)

GetUserCount(c) ==
    /\ At(c, "get_user", "first")
    /\ IF ~UserExists(handlers[c].oid)
       THEN Respond(c, HttpError(404, "User not found"))
       ELSE Goto(c, "find")
    /\ UNCHANGED <<users, portfolios, minted, submitted, riskVars, taskVars>>

\* raw = await users_col.find_one(...); raw["id"] = ... on None is a TypeError.
GetUserFind(c) ==
    /\ At(c, "get_user", "find")
    /\ IF Find(users, handlers[c].oid) = {}
       THEN Respond(c, InternalServerError)
       ELSE Respond(c, UserResponse(TheDoc(users, handlers[c].oid)))
    /\ UNCHANGED <<users, portfolios, minted, submitted, riskVars, taskVars>>

\* The bodies of update_user: the email address given or not (the names are
\* not modelled).
UserUpdates == Emails \cup {NoEmail}

\* body.model_dump(exclude_unset=True, by_alias=True): the fields given.
UpdateData(email) == IF email = NoEmail THEN {} ELSE {"email_address"}

\* users_col.find_one_and_update({"_id": oid}, {"$set": update_data}), no upsert.
FindOneAndUpdateUser(coll, oid, email) ==
    {IF d._id = oid /\ "email_address" \in UpdateData(email)
     THEN [d EXCEPT !.email_address = email]
     ELSE d : d \in coll}

\* users.py update_user
StartUpdateUser(c) ==
    \E s \in IdStrings, email \in UserUpdates :
        Start(c, "update_user", s, email, NoBody, InternalServerError)

UpdateUserCount(c) ==
    /\ At(c, "update_user", "first")
    /\ IF ~UserExists(handlers[c].oid)
       THEN Respond(c, HttpError(404, "User not found"))
       ELSE Goto(c, "update")
    /\ UNCHANGED <<users, portfolios, minted, submitted, riskVars, taskVars>>

\* An empty $set is refused by a server before 5.0 and is a no-op from 5.0 on.
UpdateUserApply(c) ==
    /\ At(c, "update_user", "update")
    /\ \/ /\ UpdateData(handlers[c].email) = {}
          /\ Respond(c, InternalServerError)
          /\ UNCHANGED users
       \/ /\ users' = FindOneAndUpdateUser(users, handlers[c].oid, handlers[c].email)
          /\ IF Find(users', handlers[c].oid) = {}
             THEN Respond(c, HttpError(404, "User not found"))
             ELSE Respond(c, UserResponse(TheDoc(users', handlers[c].oid)))
    /\ UNCHANGED <<portfolios, minted, submitted, riskVars, taskVars>>

\* portfolio.py create_portfolio
StartCreatePortfolio(c) ==
    /\ minted < MaxDocs
    /\ \E s \in IdStrings, body \in Bodies :
          Start(c, "create_portfolio", s, "", body, InternalServerError)

CreatePortfolioCount(c) ==
    /\ At(c, "create_portfolio", "first")
    /\ IF ~UserExists(handlers[c].oid)
       THEN Respond(c, HttpError(404, "User not found"))
       ELSE Goto(c, "insert")
    /\ UNCHANGED <<users, portfolios, minted, submitted, riskVars, taskVars>>

CreatePortfolioInsert(c) ==
    /\ At(c, "create_portfolio", "insert")
    /\ minted < MaxDocs
    /\ minted' = minted + 1
    /\ LET data == ModelDump(handlers[c].body)
       IN  portfolios' = portfolios \cup
              {[_id |-> minted + 1, user_id |-> handlers[c].oid,
                id |-> data.id, positions |-> data.positions]}
    /\ Respond(c, [NoResponse EXCEPT !.status = 201, !.id = Str(minted + 1)])
    /\ submitted' = submitted \cup {[id |-> minted + 1, positions |-> handlers[c].body.positions]}
    /\ UNCHANGED <<users, riskVars, taskVars>>

\* portfolio.py read_portfolio
StartReadPortfolio(c) ==
    \E s \in IdStrings : Start(c, "read_portfolio", s, "", NoBody, InvalidPortfolioId)

ReadPortfolioFind(c) ==
    /\ At(c, "read_portfolio", "first")
    /\ IF Find(portfolios, handlers[c].oid) = {}
       THEN Respond(c, HttpError(404, "Portfolio not found"))
       ELSE Respond(c, PortfolioResponse(TheDoc(portfolios, handlers[c].oid)))
    /\ UNCHANGED <<users, portfolios, minted, submitted, riskVars, taskVars>>

\* portfolio.py update_portfolio
StartUpdatePortfolio(c) ==
    \E s \in IdStrings, body \in Bodies :
        Start(c, "update_portfolio", s, "", body, InvalidPortfolioId)

UpdatePortfolioApply(c) ==
    /\ At(c, "update_portfolio", "first")
    /\ portfolios' = FindOneAndUpdate(portfolios, handlers[c].oid, handlers[c].body)
    /\ IF Find(portfolios', handlers[c].oid) = {}
       THEN Respond(c, HttpError(404, "Portfolio not found"))
       ELSE Respond(c, PortfolioResponse(TheDoc(portfolios', handlers[c].oid)))
    /\ submitted' = {e \in submitted : e.id # handlers[c].oid}
    /\ UNCHANGED <<users, minted, riskVars, taskVars>>

\* portfolio.py delete_portfolio
StartDeletePortfolio(c) ==
    \E s \in IdStrings : Start(c, "delete_portfolio", s, "", NoBody, InvalidPortfolioId)

DeletePortfolioCount(c) ==
    /\ At(c, "delete_portfolio", "first")
    /\ IF Find(portfolios, handlers[c].oid) = {}
       THEN Respond(c, HttpError(404, "User not found"))
       ELSE Goto(c, "delete")
    /\ UNCHANGED <<users, portfolios, minted, submitted, riskVars, taskVars>>

DeletePortfolioApply(c) ==
    /\ At(c, "delete_portfolio", "delete")
    /\ portfolios' = DeleteOne(portfolios, handlers[c].oid)
    /\ Respond(c, [NoResponse EXCEPT !.status = 200,
                      !.flag = (Cardinality(portfolios) - Cardinality(portfolios') = 1)])
    /\ submitted' = {e \in submitted : e.id # handlers[c].oid}
    /\ UNCHANGED <<users, minted, riskVars, taskVars>>

\* A check of the fetched document that every id passes (a mutant of Saved).
SavedAlways(coll, oid) == TRUE

\* saved = await portfolios_col.find_one({"_id": object_id}); "if not saved"
\* is the negation of this.
Saved(coll, oid) == Find(coll, oid) # {}

\* Portfolio.model_validate(saved): the positions of the fetched document.
ValidatedPositions(coll, oid) ==
    IF Find(coll, oid) = {} THEN <<>> ELSE TheDoc(coll, oid).positions

\* The handler goes into the risk function, which awaits its download.
AwaitFetch(c, positions) ==
    handlers' = [handlers EXCEPT ![c].pc = "fetching", ![c].queries = @ + 1,
                                 ![c].fetches = @ + 1, ![c].body.positions = positions]

\* The response for the outcome of a risk function: the number, or 500 for an
\* exception and for a NaN (which the JSON response cannot carry).
RiskResponse(result) ==
    IF result.kind = "value"
    THEN [NoResponse EXCEPT !.status = 200, !.value = result]
    ELSE InternalServerError

\* portfolio.py get_portfolio_var
StartPortfolioVar(c) ==
    \E s \in IdStrings : Start(c, "get_portfolio_var", s, "", NoBody, InvalidPortfolioId)

\* The document is fetched and validated.  calculate_historical_var is then
\* given a HistoricalVaRRequest, a class stock_utils.py does not define: the
\* call either fails on it or goes on to its download.
PortfolioVarFind(c) ==
    /\ At(c, "get_portfolio_var", "first")
    /\ IF ~Saved(portfolios, handlers[c].oid)
       THEN Respond(c, HttpError(404, "Portfolio not found"))
       ELSE \/ Respond(c, InternalServerError)
            \/ AwaitFetch(c, ValidatedPositions(portfolios, handlers[c].oid))
    /\ UNCHANGED <<users, portfolios, minted, submitted, riskVars, taskVars>>

\* portfolio.py get_portfolio_beta
StartPortfolioBeta(c) ==
    \E s \in IdStrings : Start(c, "get_portfolio_beta", s, "", NoBody, InvalidPortfolioId)

PortfolioBetaFind(c) ==
    /\ At(c, "get_portfolio_beta", "first")
    /\ IF ~Saved(portfolios, handlers[c].oid)
       THEN Respond(c, HttpError(404, "Portfolio not found"))
       ELSE AwaitFetch(c, ValidatedPositions(portfolios, handlers[c].oid))
    /\ UNCHANGED <<users, portfolios, minted, submitted, riskVars, taskVars>>

\* The frames the downloads of the endpoints return: MaxDates dates, every
\* ticker's price alternating between 1 and 2 from the same start.
EndpointFrames(tickers) ==
    IF tickers = <<>> THEN {EmptyFrame}
    ELSE LET cols == CHOOSE o \in Orderings(Range(tickers)) : TRUE
         IN  {[columns |-> cols,
               multi |-> TRUE,
               close |-> Tuple([t \in 1..MaxDates |->
                           Tuple([k \in 1..Len(cols) |->
                              IF t % 2 = 1 THEN first ELSE 3 - first])])]
                : first \in ClosePrices}

\* The download of the risk function returns and the handler answers.
RiskFetchReturns(c) ==
    /\ handlers[c].pc = "fetching"
    /\ LET op == IF handlers[c].op = "get_portfolio_beta" THEN "beta" ELSE "var"
           portfolio == handlers[c].body.positions
           tickers == IF op = "beta" THEN DownloadList(portfolio) ELSE Symbols(portfolio)
       IN  \E frame \in EndpointFrames(tickers), lib \in Libraries :
              handlers' = [handlers EXCEPT
                 ![c].pc = "done",
                 ![c].response =
                     RiskResponse(Run(op, portfolio, DefaultConfidence, frame, lib).outcome)]
    /\ UNCHANGED <<users, portfolios, minted, submitted, riskVars, taskVars>>

\* The download raises, and the exception leaves the handler.
RiskFetchRaises(c) ==
    /\ handlers[c].pc = "fetching"
    /\ handlers' = [handlers EXCEPT ![c].pc = "done", ![c].response = InternalServerError]
    /\ UNCHANGED <<users, portfolios, minted, submitted, riskVars, taskVars>>

\* The client has the response.
Ack(c) ==
    /\ handlers[c].pc = "done"
    /\ handlers' = [handlers EXCEPT ![c] = IdleHandler]
    /\ UNCHANGED <<users, portfolios, minted, submitted, riskVars, taskVars>>

\* Sequential executions: one client, one request at a time.
SequentialClients == {1}

NextStore ==
    \E c \in SequentialClients :
        \/ StartCreateUser(c) \/ CreateUserCount(c) \/ CreateUserInsert(c) \/ CreateUserFind(c)
        \/ StartDeleteUser(c) \/ DeleteUserCount(c) \/ DeleteUserApply(c)
        \/ StartGetUser(c) \/ GetUserCount(c) \/ GetUserFind(c)
        \/ StartUpdateUser(c) \/ UpdateUserCount(c) \/ UpdateUserApply(c)
        \/ StartCreatePortfolio(c) \/ CreatePortfolioCount(c) \/ CreatePortfolioInsert(c)
        \/ StartReadPortfolio(c) \/ ReadPortfolioFind(c)
        \/ StartUpdatePortfolio(c) \/ UpdatePortfolioApply(c)
        \/ StartDeletePortfolio(c) \/ DeletePortfolioCount(c) \/ DeletePortfolioApply(c)
        \/ StartPortfolioVar(c) \/ PortfolioVarFind(c)
        \/ StartPortfolioBeta(c) \/ PortfolioBetaFind(c)
        \/ RiskFetchReturns(c) \/ RiskFetchRaises(c)
        \/ Ack(c)

SpecStore == Init /\ [][NextStore]_vars

\* Handler c takes a step.
Steps(c) == handlers'[c] # handlers[c]
Ids(coll) == {d._id : d \in coll}

\* C17: after create_portfolio returned id P, and with no update or delete of
\* P since, read_portfolio(P) answers 200 with id P and the positions that
\* were submitted, in their order.
C17_CreateReadRoundTrip ==
    \A c \in Clients : \A e \in submitted :
        (At(c, "read_portfolio", "done") /\ handlers[c].arg = Str(e.id)) =>
            handlers[c].response =
                [NoResponse EXCEPT !.status = 200, !.id = handlers[c].arg,
                                   !.positions = e.positions]

\* C17 witness: a portfolio created with an id field of its own in the body
\* is read back under the id the create returned.
C17_Witness ==
    /\ At(1, "read_portfolio", "done")
    /\ handlers[1].response.status = 200
    /\ handlers[1].response.id = handlers[1].arg
    /\ Len(handlers[1].response.positions) = 2
    /\ \E e \in submitted : e.id = handlers[1].oid
    /\ \E d \in portfolios : d._id = handlers[1].oid /\ d.id = MalformedId

\* A create_portfolio whose user id matches no user document answers 404
\* 'User not found' at its existence check and inserts nothing.
NoSuchUserIsRejected ==
    \A c \in Clients :
        (handlers[c].op = "create_portfolio" /\ Steps(c)
           /\ ~\E u \in users : u._id = handlers[c].oid) =>
            /\ portfolios' = portfolios
            /\ handlers[c].pc = "first" =>
                  /\ handlers'[c].pc = "done"
                  /\ handlers'[c].response = HttpError(404, "User not found")

\* A portfolio document is inserted with the user_id of a user that exists.
InsertedForExistingUser ==
    \A d \in portfolios' :
        d._id \notin Ids(portfolios) => \E u \in users : u._id = d.user_id

\* C18: create_portfolio with a well-formed user_id that matches no user
\* document answers 404 'User not found' and leaves the portfolios collection
\* unchanged; in sequential executions every portfolio document is inserted
\* with the user_id of a user that exists at that moment.
C18_UnknownUserInsertsNothing ==
    [][NoSuchUserIsRejected /\ InsertedForExistingUser]_vars

\* C18 witness: a create_portfolio was answered 404 'User not found' while
\* another user exists, and no portfolio is stored.
C18_Witness ==
    /\ At(1, "create_portfolio", "done")
    /\ handlers[1].response = HttpError(404, "User not found")
    /\ handlers[1].oid # 0
    /\ users # {}
    /\ portfolios = {}

\* The steps of delete_portfolio: on an existing portfolio the check passes
\* and the delete removes that document alone and answers true; on an id
\* that matches no portfolio the check answers 404 and nothing changes.
DeleteRemovesExactly ==
    \A c \in Clients :
        (handlers[c].op = "delete_portfolio" /\ Steps(c)) =>
            LET found == {d \in portfolios : Str(d._id) = handlers[c].arg}
            IN  CASE handlers[c].pc = "first" /\ found # {} ->
                       handlers'[c].pc = "delete" /\ portfolios' = portfolios
                  [] handlers[c].pc = "first" /\ found = {} ->
                       /\ handlers'[c].pc = "done"
                       /\ handlers'[c].response.status = 404
                       /\ portfolios' = portfolios
                  [] handlers[c].pc = "delete" ->
                       /\ found # {}
                       /\ handlers'[c].response = [NoResponse EXCEPT !.status = 200, !.flag = TRUE]
                       /\ portfolios' = portfolios \ found
                  [] OTHER -> portfolios' = portfolios

\* An id that left the collection does not come back: new documents have ids
\* never given before.
IdsAreFresh ==
    /\ minted' >= minted
    /\ \A d \in portfolios' : d._id \in Ids(portfolios) \/ d._id > minted

\* C19: delete_portfolio on an existing portfolio P returns true and removes
\* exactly P; every later read_portfolio(P) answers 404 'Portfolio not
\* found'; delete_portfolio on a well-formed id that matches no portfolio
\* answers 404 and changes nothing.
C19_DeleteRemovesExactlyOne ==
    /\ [](/\ Ids(portfolios) \subseteq 1..minted
          /\ \A c \in Clients :
                (At(c, "read_portfolio", "done") /\ handlers[c].oid # 0
                   /\ handlers[c].oid \notin Ids(portfolios)) =>
                    handlers[c].response = HttpError(404, "Portfolio not found"))
    /\ [][DeleteRemovesExactly /\ IdsAreFresh]_vars

\* C19 witness: a delete returned true, its portfolio is gone and another
\* portfolio is still stored.
C19_Witness ==
    /\ At(1, "delete_portfolio", "done")
    /\ handlers[1].response.status = 200 /\ handlers[1].response.flag
    /\ handlers[1].oid \notin Ids(portfolios)
    /\ portfolios # {}

\* The step of update_portfolio: on an existing portfolio the document gets
\* the submitted positions and keeps its user_id, the other documents stay,
\* and the answer is 200 with that id and those positions; on an id that
\* matches no portfolio the answer is 404 and the collection stays.
UpdateReplacesPositions ==
    \A c \in Clients :
        (At(c, "update_portfolio", "first") /\ Steps(c)) =>
            LET found == {d \in portfolios : Str(d._id) = handlers[c].arg}
            IN  IF found # {}
                THEN /\ \E old \in found, new \in portfolios' :
                           /\ new._id = old._id
                           /\ new.user_id = old.user_id
                           /\ new.positions = handlers[c].body.positions
                           /\ portfolios' \ {new} = portfolios \ {old}
                     /\ handlers'[c].response =
                           [NoResponse EXCEPT !.status = 200, !.id = handlers[c].arg,
                                              !.positions = handlers[c].body.positions]
                ELSE /\ handlers'[c].response = HttpError(404, "Portfolio not found")
                     /\ portfolios' = portfolios

\* C20: update_portfolio on an existing portfolio P replaces its positions
\* with the submitted ones and answers 200 with id P and those positions,
\* leaving P's user_id and every other portfolio unchanged; on a well-formed
\* id that matches no portfolio it answers 404 'Portfolio not found' and
\* creates no document.
C20_UpdateReplacesPositions ==
    [][UpdateReplacesPositions]_vars

\* C20 witness: an update answered 200 with positions in another order than
\* those of the other stored portfolio.
C20_Witness ==
    /\ At(1, "update_portfolio", "done")
    /\ handlers[1].response.status = 200
    /\ \E d \in portfolios :
          /\ d._id = handlers[1].oid
          /\ d.positions = handlers[1].body.positions
          /\ d.id = MalformedId
    /\ \E d \in portfolios :
          d._id # handlers[1].oid /\ d.positions # handlers[1].body.positions

\* The handlers that take a portfolio id from the path.
PortfolioIdOps ==
    {"read_portfolio", "update_portfolio", "delete_portfolio",
     "get_portfolio_var", "get_portfolio_beta"}
RiskOps == {"get_portfolio_var", "get_portfolio_beta"}

\* Handler c was given a string that is no ObjectId.
GivenMalformedId(h) == h.op \in PortfolioIdOps /\ h.arg[1] # "hex"

\* C21: a malformed portfolio id is answered with 422 by read_portfolio,
\* update_portfolio, delete_portfolio, get_portfolio_var and
\* get_portfolio_beta before any store access: the handler has issued no
\* store operation and no market-data fetch, and its steps leave the
\* collections as they are.
C21_MalformedIdIs422 ==
    /\ [](\A c \in Clients :
            GivenMalformedId(handlers[c]) =>
               /\ handlers[c].pc = "done"
               /\ handlers[c].response = HttpError(422, "Invalid portfolio ID format")
               /\ handlers[c].queries = 0
               /\ handlers[c].fetches = 0)
    /\ [][\A c \in Clients :
            (Steps(c) /\ (GivenMalformedId(handlers[c]) \/ GivenMalformedId(handlers'[c]))) =>
                UNCHANGED <<users, portfolios>>]_vars

\* C21 witness: get_portfolio_var answered 422 to a malformed id while a
\* portfolio is stored.
C21_Witness ==
    /\ At(1, "get_portfolio_var", "done")
    /\ handlers[1].arg = MalformedId
    /\ handlers[1].response.status = 422
    /\ handlers[1].queries = 0
    /\ portfolios # {}

\* The fetch of a risk endpoint is issued by the step that found the
\* portfolio document, for the positions of that document.
FetchFollowsFind ==
    \A c \in Clients :
        handlers'[c].fetches > handlers[c].fetches =>
            /\ handlers[c].op \in RiskOps /\ handlers[c].pc = "first"
            /\ handlers[c].fetches = 0 /\ handlers'[c].fetches = 1
            /\ handlers'[c].queries = 1
            /\ \E d \in portfolios :
                  /\ Str(d._id) = handlers[c].arg
                  /\ handlers'[c].body.positions = d.positions

\* C22: get_portfolio_var and get_portfolio_beta on a well-formed id that
\* matches no stored portfolio answer 404 'Portfolio not found' without a
\* market-data fetch; a fetch is issued only after the portfolio document
\* has been found and validated.
C22_NoFetchBeforeFound ==
    /\ [](\A c \in Clients :
            (handlers[c].op \in RiskOps /\ handlers[c].arg[1] = "hex"
               /\ handlers[c].arg \notin {Str(i) : i \in Ids(portfolios)}) =>
               /\ handlers[c].fetches = 0
               /\ handlers[c].pc = "done" =>
                     handlers[c].response = HttpError(404, "Portfolio not found"))
    /\ [][FetchFollowsFind]_vars

\* C22 witness: get_portfolio_beta answered 404 to the id of no portfolio
\* without a fetch, another portfolio being stored.
C22_Witness ==
    /\ At(1, "get_portfolio_beta", "done")
    /\ handlers[1].oid # 0
    /\ handlers[1].response = HttpError(404, "Portfolio not found")
    /\ handlers[1].queries = 1 /\ handlers[1].fetches = 0
    /\ portfolios # {}

(***************************************************************************)
(* Concurrent requests to the store.  Each handler is a coroutine that     *)
(* gives the event loop up at every await of a database operation, so the  *)
(* operations of the handlers of different clients interleave.             *)
(***************************************************************************)
NextConcurrent ==
    \E c \in Clients :
        \/ StartCreateUser(c) \/ CreateUserCount(c) \/ CreateUserInsert(c) \/ CreateUserFind(c)
        \/ StartGetUser(c) \/ GetUserCount(c) \/ GetUserFind(c)
        \/ StartUpdateUser(c) \/ UpdateUserCount(c) \/ UpdateUserApply(c)
        \/ StartDeleteUser(c) \/ DeleteUserCount(c) \/ DeleteUserApply(c)
        \/ StartCreatePortfolio(c) \/ CreatePortfolioCount(c) \/ CreatePortfolioInsert(c)
        \/ StartDeletePortfolio(c) \/ DeletePortfolioCount(c) \/ DeletePortfolioApply(c)
        \/ Ack(c)

SpecConcurrent == Init /\ [][NextConcurrent]_vars

\* A create_user that finds its email stored answers 409 and leaves the
\* collection as it is.
StoredEmailIsRejected ==
    [][\A c \in Clients :
          (At(c, "create_user", "first") /\ Steps(c)
             /\ \E u \in users : u.email_address = handlers[c].email) =>
              /\ handlers'[c].response = HttpError(409, "email already exits")
              /\ handlers'[c].pc = "done"
              /\ users' = users]_vars

\* C23: in every reachable state of the users collection no two user
\* documents share an email_address, under any interleaving of concurrent
\* create_user requests, each of which counts the documents of the email and
\* then inserts.
C23_EmailsAreUnique ==
    \A u, v \in users : u.email_address = v.email_address => u._id = v._id

\* Handler c has passed its existence check and come back from the
\* operation that follows it.
PassedCheck(c, op) == At(c, op, "done") /\ handlers[c].queries = 2

\* C24: in get_user and update_user, once count_documents has found the
\* user, the find_one / find_one_and_update that follows finds the document:
\* get_user does not dereference None (answered as 500) and update_user does
\* not take its second 404 branch, whatever delete_user requests for the same
\* id run concurrently.
C24_FindAfterCountFinds ==
    \A c \in Clients :
        /\ PassedCheck(c, "get_user") => handlers[c].response.status = 200
        /\ PassedCheck(c, "update_user") =>
              handlers[c].response # HttpError(404, "User not found")

\* C25: delete_portfolio and delete_user answer 404 or return true: when the
\* existence check has passed the handler returns true, never false, also
\* when two deletes of the same id run concurrently.
C25_DeleteReturnsTrue ==
    \A c \in Clients :
        (PassedCheck(c, "delete_portfolio") \/ PassedCheck(c, "delete_user")) =>
            /\ handlers[c].response.status = 200
            /\ handlers[c].response.flag

====
